---- MODULE Spec2Model ----
(***************************************************************************)
(* A model of tmscoring/tmscore.py: the Aligning scorer (correspondence    *)
(* builders, transform model, score functions, initial guess, optimiser    *)
(* adapter, structure writer).                                             *)
(*                                                                         *)
(* Numbers.  Coordinates are integers (exactly representable floats).      *)
(* Angles are counted in quarter turns (theta = q * pi/2), for which the   *)
(* sines and cosines are exactly -1, 0 or 1.  Quotients and roots are      *)
(* kept in fixed point with resolution 1/Scale.  NaN is the string "nan".  *)
(***************************************************************************)
EXTENDS Integers, Sequences, FiniteSets, TLC

\* ------------------------------------------------------------------ bounds
Extra == 1          \* structures have up to MinN + Extra residues
NumEditPos == 1     \* residue positions 2 .. 1 + NumEditPos may be edited
MaxParam == 6       \* the parameter sets tried are Param(0) .. Param(MaxParam)

\* --------------------------------------------------------- program constants
MinN == 15          \* d0 = 1.24 * (N - 15)**(1/3) - 1.8
D0Slope == 124      \* 1.24, in hundredths
D0Offset == 180     \* 1.8, in hundredths
Scale == 10000      \* fixed-point resolution of a float64 quotient
Milli == 1000       \* the three decimals of a coordinate field
FieldWidth == 8     \* '{:>8.3f}'

\* ------------------------------------------------------------ small helpers
Abs(n) == IF n < 0 THEN -n ELSE n

Min(a, b) == IF a < b THEN a ELSE b

RECURSIVE SumSeq(_)
SumSeq(s) == IF s = <<>> THEN 0 ELSE Head(s) + SumSeq(Tail(s))

\* The elements of a finite set of integers, ascending.
RECURSIVE Ascending(_)
Ascending(S) ==
    IF S = {} THEN <<>>
    ELSE LET m == CHOOSE x \in S : \A y \in S : x <= y
         IN <<m>> \o Ascending(S \ {m})

\* floor of the square root, by bisection on lo..hi
RECURSIVE SqrtIn(_, _, _)
SqrtIn(v, lo, hi) ==
    IF lo >= hi THEN lo
    ELSE LET mid == (lo + hi + 1) \div 2
         IN IF mid * mid <= v THEN SqrtIn(v, mid, hi) ELSE SqrtIn(v, lo, mid - 1)

ISqrt(v) == SqrtIn(v, 0, Min(v, 46340))

\* floor of the cube root, by bisection on lo..hi
RECURSIVE CbrtIn(_, _, _)
CbrtIn(v, lo, hi) ==
    IF lo >= hi THEN lo
    ELSE LET mid == (lo + hi + 1) \div 2
         IN IF mid * mid * mid <= v THEN CbrtIn(v, mid, hi) ELSE CbrtIn(v, lo, mid - 1)

ICbrt(v) == CbrtIn(v, 0, Min(v, 1290))

\* ------------------------------------------------------------------ inputs
(* A parsed structure is the sequence of its residues in file order: the   *)
(* residue number (r.id[1]), its one-letter code, whether it carries a CA  *)
(* atom, and the CA position.                                              *)
BasePos(i) == <<i, (i * i) % 5, i % 3>>

Base(n) == [i \in 1..n |-> [id |-> i, aa |-> i, ca |-> TRUE, pos |-> BasePos(i)]]

EditPos == 2..(1 + NumEditPos)

Edits == {<<"none", 0>>} \cup ({"dropCA", "dupId", "swap", "delete"} \X EditPos)

Edit(s, e) ==
    LET k == e[2] IN
    CASE e[1] = "none"   -> s
      [] e[1] = "dropCA" -> [s EXCEPT ![k].ca = FALSE]
      [] e[1] = "dupId"  -> [s EXCEPT ![k].id = s[k - 1].id]
      [] e[1] = "swap"   -> [s EXCEPT ![k] = s[k + 1], ![k + 1] = s[k]]
      [] e[1] = "delete" -> SubSeq(s, 1, k - 1) \o SubSeq(s, k + 1, Len(s))

Moves == {"same", "shift", "turn", "flip"}

MovePos(p, m) ==
    CASE m = "same"  -> p
      [] m = "shift" -> <<p[1] + 1, p[2] + 2, p[3]>>
      [] m = "turn"  -> <<-p[2], p[1], p[3]>>
      [] m = "flip"  -> <<-p[1], -p[2], -p[3]>>

Move(s, m) == [i \in 1..Len(s) |-> [s[i] EXCEPT !.pos = MovePos(s[i].pos, m)]]

Lens == (MinN - 1)..(MinN + Extra)

Modes == {"index", "align", "alignment"}

Classes == {"Aligning", "TMscoring", "RMSDscoring"}

VARIABLES
    pdb1, pdb2,     \* the two parsed structures
    mode,           \* the mode argument of the constructor
    cls,            \* the class constructed: Aligning, TMscoring or RMSDscoring
    status,         \* "new", "ok" (an object exists) or "failed" (it raised)
    error,          \* the exception of a failed construction or call
    coord1, coord2, \* self.coord1, self.coord2: sequences of columns <<x, y, z, 1>>
    src1, src2,     \* for each column, the position of its residue in pdb1, pdb2
    N,              \* self.N
    d02,            \* self.d02, in units of 1/Scale
    values,         \* self._values
    matrix,         \* the default output array of get_matrix, made once
    last,           \* the last call, its arguments and what it returned
    converged       \* the values of the last completed minimiser run, if any

vars == <<pdb1, pdb2, mode, cls, status, error, coord1, coord2, src1, src2, N, d02,
          values, matrix, last, converged>>

\* ----------------------------------------------------- correspondence builder
Column(r) == <<r.pos[1], r.pos[2], r.pos[3], 1>>

Stack(s, kept) == [j \in 1..Len(kept) |-> Column(s[kept[j]])]

IdSet(s) == {s[i].id : i \in 1..Len(s)}

\* Aligning._load_data_index
LoadIndex(s1, s2) ==
    LET indexes1 == IdSet(s1)
        indexes2 == IdSet(s2)
        indexes == indexes1 \cap indexes2
        kept1 == Ascending({i \in 1..Len(s1) : s1[i].id \in indexes /\ s1[i].ca})
        kept2 == Ascending({i \in 1..Len(s2) : s2[i].id \in indexes /\ s2[i].ca})
    IN  IF kept1 = <<>> \/ kept2 = <<>>
        THEN [ok |-> FALSE, error |-> "ValueError: hstack of no arrays"]
        ELSE [ok |-> TRUE, coord1 |-> Stack(s1, kept1), coord2 |-> Stack(s2, kept2),
              src1 |-> kept1, src2 |-> kept2, N |-> Cardinality(indexes1)]

\* str(ppb.build_peptides(structure)[0].get_sequence())
Sequence(s) == [i \in 1..Len(s) |-> s[i].aa]

Gap == 0

(* pairwise2.align.globalms(seq1, seq2, 2, -1, -0.5, -0.1)[0], an external *)
(* aligner, for two sequences whose letters ascend but for local swaps: a  *)
(* letter both have is a match column, a letter one lacks stands opposite  *)
(* a gap.  The result is a sequence of columns <<s1, s2>>.                 *)
RECURSIVE globalms(_, _)
globalms(a, b) ==
    IF a = <<>> /\ b = <<>> THEN <<>>
    ELSE IF a = <<>> THEN <<<<Gap, Head(b)>>>> \o globalms(a, Tail(b))
    ELSE IF b = <<>> THEN <<<<Head(a), Gap>>>> \o globalms(Tail(a), b)
    ELSE IF Head(a) = Head(b) THEN <<<<Head(a), Head(b)>>>> \o globalms(Tail(a), Tail(b))
    ELSE IF Head(a) < Head(b) THEN <<<<Head(a), Gap>>>> \o globalms(Tail(a), b)
    ELSE <<<<Gap, Head(b)>>>> \o globalms(a, Tail(b))

\* Aligning._load_data_alignment
LoadAlignment(s1, s2) ==
    LET seq1 == Sequence(s1)
        seq2 == Sequence(s2)
        align == globalms(seq1, seq2)
        \* enumerate() counts from 0
        indexes == {i - 1 : i \in {c \in 1..Len(align) :
                                     align[c][1] # Gap /\ align[c][2] # Gap}}
        kept1 == Ascending({i \in 1..Len(s1) : (i - 1) \in indexes /\ s1[i].ca})
        kept2 == Ascending({i \in 1..Len(s2) : (i - 1) \in indexes /\ s2[i].ca})
    IN  IF kept1 = <<>> \/ kept2 = <<>>
        THEN [ok |-> FALSE, error |-> "ValueError: hstack of no arrays"]
        ELSE [ok |-> TRUE, coord1 |-> Stack(s1, kept1), coord2 |-> Stack(s2, kept2),
              src1 |-> kept1, src2 |-> kept2, N |-> Len(seq1)]

\* d0 = 1.24 * (self.N - 15)**(1.0/3.0) - 1.8, in hundredths
D0(n) == (D0Slope * ICbrt((n - MinN) * 1000000)) \div 100 - D0Offset

ZeroValues == [theta |-> 0, phi |-> 0, psi |-> 0, dx |-> 0, dy |-> 0, dz |-> 0]

\* np.zeros((4, 4))
ZeroMatrix == <<<<0, 0, 0, 0>>, <<0, 0, 0, 0>>, <<0, 0, 0, 0>>, <<0, 0, 0, 0>>>>

None == "None"

\* A constructor that took the mode name "alignment" for the alignment builder.
LoadedAlignmentName(s1, s2, md) ==
    IF md = "alignment" THEN LoadAlignment(s1, s2)
    ELSE IF md = "index" THEN LoadIndex(s1, s2)
    ELSE [ok |-> FALSE, error |-> "ValueError: Unrecognised mode"]

\* Aligning.__init__: its outcome for the two structures and the mode
Loaded(s1, s2, md) ==
    IF md = "align" THEN LoadAlignment(s1, s2)
    ELSE IF md = "index" THEN LoadIndex(s1, s2)
    ELSE [ok |-> FALSE, error |-> "ValueError: Unrecognised mode"]

(* The state before the constructor runs: two structures cut from a common *)
(* base chain of n residues, each with one edit, the second one moved.     *)
InitWith(lens, edits1, edits2, moves, modes, classes) ==
    /\ \E n \in lens, e1 \in edits1, e2 \in edits2, m \in moves :
          /\ pdb1 = Edit(Base(n), e1)
          /\ pdb2 = Move(Edit(Base(n), e2), m)
    /\ mode \in modes
    /\ cls \in classes
    /\ status = "new"
    /\ error = None
    /\ coord1 = <<>> /\ coord2 = <<>> /\ src1 = <<>> /\ src2 = <<>>
    /\ N = 0 /\ d02 = 0
    /\ values = None
    /\ matrix = ZeroMatrix
    /\ last = [op |-> "none", raised |-> FALSE]
    /\ converged = <<>>

Init == InitWith(Lens, Edits, Edits, Moves, Modes, {"Aligning"})

Construct ==
    /\ status = "new"
    /\ LET l == Loaded(pdb1, pdb2, mode) IN
       IF ~l.ok
       THEN /\ status' = "failed"
            /\ error' = l.error
            /\ UNCHANGED <<coord1, coord2, src1, src2, N, d02, values>>
       ELSE IF l.N < MinN
       THEN \* Python 2 (the module uses print statements): a negative number
            \* cannot be raised to a fractional power
            /\ status' = "failed"
            /\ error' = "ValueError: negative number to a fractional power"
            /\ UNCHANGED <<coord1, coord2, src1, src2, N, d02, values>>
       ELSE /\ status' = "ok"
            /\ coord1' = l.coord1 /\ coord2' = l.coord2
            /\ src1' = l.src1 /\ src2' = l.src2
            /\ N' = l.N
            /\ d02' = D0(l.N) * D0(l.N)
            /\ values' = ZeroValues
            /\ UNCHANGED error
    /\ UNCHANGED <<pdb1, pdb2, mode, cls, matrix, last, converged>>

\* --------------------------------------------------------- transform model
(* The parameter sets a caller passes or the minimiser returns: quarter     *)
(* turns for the angles, whole units for the translation.  Param(0) is the *)
(* zero transform, Param(1) .. Param(6) move in one parameter each, and    *)
(* the later ones turn by theta and shift along x.                         *)
Param(k) ==
    [theta |-> IF k = 1 \/ k > 6 THEN 1 ELSE 0,
     phi |-> IF k = 3 THEN 1 ELSE 0,
     psi |-> IF k = 5 THEN 1 ELSE 0,
     dx |-> IF k = 2 THEN 1 ELSE IF k > 6 THEN k - 6 ELSE 0,
     dy |-> IF k = 4 THEN 1 ELSE 0,
     dz |-> IF k = 6 THEN 1 ELSE 0]

ParamSet == {Param(k) : k \in 0..MaxParam}

\* np.cos and np.sin of q quarter turns
Cos(q) == CASE q % 4 = 0 -> 1 [] q % 4 = 1 -> 0 [] q % 4 = 2 -> -1 [] q % 4 = 3 -> 0

Sin(q) == CASE q % 4 = 0 -> 0 [] q % 4 = 1 -> 1 [] q % 4 = 2 -> 0 [] q % 4 = 3 -> -1

(* Aligning.get_matrix with its default arguments: it overwrites the       *)
(* rotation block, the translation column and the corner of the one array  *)
(* `buf` made when the function was defined, and returns that array.       *)
GetMatrix(buf, p) ==
    LET cx == Cos(p.theta)  cy == Cos(p.phi)  cz == Cos(p.psi)
        sx == Sin(p.theta)  sy == Sin(p.phi)  sz == Sin(p.psi)
    IN  << <<cx * cz - sx * cy * sz, cx * sz + sx * cy * cz, sx * sy, p.dx>>,
           <<-sx * cz - cx * cy * sz, -sx * sz + cx * cy * cz, cx * sy, p.dy>>,
           <<sy * sz, -sy * cz, cy, p.dz>>,
           <<buf[4][1], buf[4][2], buf[4][3], 1>> >>

\* matrix.dot(vec) for a 4-vector
Dot(m, v) == [i \in 1..4 |-> m[i][1] * v[1] + m[i][2] * v[2] + m[i][3] * v[3] + m[i][4] * v[4]]

\* ----------------------------------------------------------- score functions
\* numpy broadcasts two (4, n) arrays when the n agree or one n is 1
Compatible == Len(coord1) = Len(coord2) \/ Len(coord1) = 1 \/ Len(coord2) = 1

NCols == IF Len(coord1) > Len(coord2) THEN Len(coord1) ELSE Len(coord2)

Col(c, j) == IF Len(c) = 1 THEN c[1] ELSE c[j]

\* dist = matrix.dot(self.coord2) - self.coord1
Dist(m) == [j \in 1..NCols |->
              [i \in 1..4 |-> Dot(m, Col(coord2, j))[i] - Col(coord1, j)[i]]]

\* (dist * dist).sum(axis=0): all four rows are summed
SquaredDist(m) ==
    LET dist == Dist(m)
    IN  [j \in 1..NCols |-> dist[j][1] * dist[j][1] + dist[j][2] * dist[j][2]
                            + dist[j][3] * dist[j][3] + dist[j][4] * dist[j][4]]

\* Aligning._tm, in units of 1/Scale: -(1 / (1 + (d_i2 / self.d02))).sum()
Tm(m) ==
    LET d_i2 == SquaredDist(m)
    IN  -SumSeq([j \in 1..NCols |-> (d02 * Scale) \div (d02 + d_i2[j] * Scale)])

\* Aligning._rmsd: (dist * dist).sum()
RmsdSum(m) == SumSeq(SquaredDist(m))

\* Aligning.tmscore, in units of 1/Scale
TmScore(m) == (-Tm(m)) \div N

\* Aligning.rmsd, in hundredths: np.sqrt(self._rmsd(...) / self.N)
Rmsd(m) == ISqrt((RmsdSum(m) * Scale) \div N)

Raised(op, what) == [op |-> op, raised |-> TRUE, what |-> what]

tmscore(p) ==
    /\ status = "ok"
    /\ matrix' = GetMatrix(matrix, p)
    /\ last' = IF Compatible
               THEN [op |-> "tmscore", raised |-> FALSE, args |-> p, tm |-> TmScore(matrix')]
               ELSE Raised("tmscore", "ValueError: operands could not be broadcast")
    /\ UNCHANGED <<pdb1, pdb2, mode, cls, status, error, coord1, coord2, src1, src2, N, d02,
                   values, converged>>

rmsd(p) ==
    /\ status = "ok"
    /\ matrix' = GetMatrix(matrix, p)
    /\ last' = IF Compatible
               THEN [op |-> "rmsd", raised |-> FALSE, args |-> p, rmsd |-> Rmsd(matrix')]
               ELSE Raised("rmsd", "ValueError: operands could not be broadcast")
    /\ UNCHANGED <<pdb1, pdb2, mode, cls, status, error, coord1, coord2, src1, src2, N, d02,
                   values, converged>>

\* ------------------------------------------------------ initial-guess estimator
Angle(y, x) == [nan |-> FALSE, y |-> y, x |-> x]

NanAngle == [nan |-> TRUE, y |-> 0, x |-> 0]

Sub3(u, v) == <<u[1] - v[1], u[2] - v[2], u[3] - v[3]>>

Dot3(u, v) == u[1] * v[1] + u[2] * v[2] + u[3] * v[3]

\* np.cross
Cross(u, v) == <<u[2] * v[3] - u[3] * v[2], u[3] * v[1] - u[1] * v[3], u[1] * v[2] - u[2] * v[1]>>

\* the skew-symmetric matrix of v
Skew(v) == << <<0, -v[3], v[2]>>, <<v[3], 0, -v[1]>>, <<-v[2], v[1], 0>> >>

MatMul3(a, b) ==
    [i \in 1..3 |-> [j \in 1..3 |-> a[i][1] * b[1][j] + a[i][2] * b[2][j] + a[i][3] * b[3][j]]]

\* np.mean(self.coord1 - self.coord2, axis=1), row i, in thousandths
MeanDiff(i) ==
    (SumSeq([j \in 1..NCols |-> Col(coord1, j)[i] - Col(coord2, j)[i]]) * Milli) \div NCols

(* np.eye(3) + vx + vx.dot(vx) * (1 - c) / (s * s) in thousandths, for the *)
(* unnormalised C->N vectors a and b with a nonzero cross product: with    *)
(* n = |a||b|, vx = Skew(a x b) / n, c = a.b / n and s*s = |a x b|^2 / n^2.*)
RotationMatrix(a, b) ==
    LET n100 == ISqrt(Dot3(a, a) * Dot3(b, b) * 10000)
        cr == Cross(a, b)
        vx == Skew(cr)
        vxvx == MatMul3(vx, vx)
        oneMinusC == ((n100 - Dot3(a, b) * 100) * Milli) \div n100
    IN  [i \in 1..3 |-> [j \in 1..3 |->
            (IF i = j THEN Milli ELSE 0)
            + (vx[i][j] * Milli * 100) \div n100
            + (vxvx[i][j] * oneMinusC) \div Dot3(cr, cr)]]

(* Aligning.get_default_values once the mean is taken.  A zero C->N vector *)
(* (0/0 on normalising) or a zero cross product (s = 0) leaves every entry *)
(* of rotation_matrix NaN, and math.atan2 of NaN is NaN.                   *)
DefaultValues ==
    LET a == Sub3(coord1[2], coord1[Len(coord1)])
        b == Sub3(coord2[2], coord2[Len(coord2)])
        cr == Cross(a, b)
        degenerate == Dot3(a, a) = 0 \/ Dot3(b, b) = 0 \/ Dot3(cr, cr) = 0
        r == RotationMatrix(a, b)
    IN  [dx |-> MeanDiff(1), dy |-> MeanDiff(2), dz |-> MeanDiff(3),
         theta |-> IF degenerate THEN NanAngle ELSE Angle(r[3][2], r[3][3]),
         phi |-> IF degenerate THEN NanAngle
                 ELSE Angle(-r[3][1], ISqrt(r[3][2] * r[3][2] + r[3][3] * r[3][3])),
         psi |-> IF degenerate THEN NanAngle ELSE Angle(r[2][1], r[1][1])]

\* the outcome of a call of get_default_values: what it raises, or its result
DefaultOutcome ==
    IF ~Compatible THEN Raised("get_default_values", "ValueError: operands could not be broadcast")
    ELSE IF Len(coord1) < 2 \/ Len(coord2) < 2
    THEN Raised("get_default_values", "IndexError: index 1 is out of bounds")
    ELSE [op |-> "get_default_values", raised |-> FALSE, out |-> DefaultValues]

get_default_values ==
    /\ status = "ok"
    /\ last' = DefaultOutcome
    /\ UNCHANGED <<pdb1, pdb2, mode, cls, status, error, coord1, coord2, src1, src2, N, d02,
                   values, matrix, converged>>

\* ----------------------------------------------------------- direct calls
(* A caller's own call of the static get_matrix; the caller keeps the      *)
(* array it is handed, which is the one default array.                     *)
get_matrix(p) ==
    /\ matrix' = GetMatrix(matrix, p)
    /\ last' = [op |-> "get_matrix", raised |-> FALSE, args |-> p]
    /\ UNCHANGED <<pdb1, pdb2, mode, cls, status, error, coord1, coord2, src1, src2, N, d02,
                   values, converged>>

get_current_values ==
    /\ status = "ok"
    /\ last' = [op |-> "get_current_values", raised |-> FALSE, out |-> values]
    /\ UNCHANGED <<pdb1, pdb2, mode, cls, status, error, coord1, coord2, src1, src2, N, d02,
                   values, matrix, converged>>

\* ------------------------------------------------------------ optimiser adapter
(* Aligning.optimise.  The minimiser (iminuit) is external: it calls the   *)
(* object at the start values first, and either raises (`fails`) or ends   *)
(* with some values v; when it raises of its own, v is where it last       *)
(* called the object.  Aligning.__call__ raises NotImplementedError before *)
(* anything else; TMscoring and RMSDscoring call _tm and _rmsd, which fill *)
(* the shared array and then raise if the coordinate sets do not match.    *)
(* What the minimiser ends with is its own affair, also when its start     *)
(* values hold NaN angles: any v of ParamSet.                              *)
\* An optimise that stored the minimiser's values before the run had ended.
OptimiseValuesEarly(completed, v) == v

\* self._values after a run of the minimiser that ended with v
OptimiseValues(completed, v) == IF completed THEN v ELSE values

\* what optimise raises, with the start values if the minimiser got any
Failed(what, restart, seeded, start) ==
    [op |-> "optimise", raised |-> TRUE, what |-> what,
     restart |-> restart, seeded |-> seeded, start |-> start]

optimise(restart, v, fails) ==
    /\ status = "ok"
    /\ LET default == IF restart THEN DefaultOutcome
                      ELSE [op |-> "get_current_values", raised |-> FALSE, out |-> values]
       IN
       IF default.raised
       THEN /\ last' = Failed(default.what, restart, FALSE, None)
            /\ values' = OptimiseValues(FALSE, v)
            /\ UNCHANGED <<matrix, converged>>
       ELSE IF cls = "Aligning"
       THEN /\ last' = Failed("NotImplementedError", restart, TRUE, default.out)
            /\ values' = OptimiseValues(FALSE, v)
            /\ UNCHANGED <<matrix, converged>>
       ELSE IF ~Compatible
       THEN \* only reached with restart = False: the start values are self._values
            /\ last' = Failed("ValueError: operands could not be broadcast",
                              restart, TRUE, default.out)
            /\ matrix' = GetMatrix(matrix, default.out)
            /\ values' = OptimiseValues(FALSE, v)
            /\ UNCHANGED converged
       ELSE IF fails
       THEN /\ last' = Failed("RuntimeError: the minimiser failed", restart, TRUE, default.out)
            /\ matrix' = GetMatrix(matrix, v)
            /\ values' = OptimiseValues(FALSE, v)
            /\ UNCHANGED converged
       ELSE /\ converged' = <<v>>
            /\ values' = OptimiseValues(TRUE, v)
            /\ matrix' = GetMatrix(matrix, v)
            /\ last' = [op |-> "optimise", raised |-> FALSE,
                        restart |-> restart, seeded |-> TRUE, start |-> default.out,
                        out |-> v, tm |-> TmScore(matrix'), rmsd |-> Rmsd(matrix')]
    /\ UNCHANGED <<pdb1, pdb2, mode, cls, status, error, coord1, coord2, src1, src2, N, d02>>

\* ------------------------------------------------------------- structure writer
DigitChars == <<"0", "1", "2", "3", "4", "5", "6", "7", "8", "9">>

Digit(d) == DigitChars[d + 1]

DigitVal(c) == CHOOSE d \in 0..9 : Digit(d) = c

IsDigit(c) == \E d \in 0..9 : Digit(d) = c

RECURSIVE Digits(_)
Digits(n) == IF n < 10 THEN <<Digit(n)>> ELSE Digits(n \div 10) \o <<Digit(n % 10)>>

RECURSIVE PadLeft(_, _)
PadLeft(s, w) == IF Len(s) >= w THEN s ELSE PadLeft(<<" ">> \o s, w)

\* '{:>8.3f}'.format(v) for v in thousandths
Format83(v) ==
    LET a == Abs(v)
    IN  PadLeft((IF v < 0 THEN <<"-">> ELSE <<>>) \o Digits(a \div Milli) \o <<".">>
                \o <<Digit((a \div 100) % 10), Digit((a \div 10) % 10), Digit(a % 10)>>,
                FieldWidth)

RECURSIVE Strip(_)
Strip(s) == IF s # <<>> /\ Head(s) = " " THEN Strip(Tail(s)) ELSE s

RECURSIVE Number(_)
Number(ds) == IF ds = <<>> THEN 0 ELSE Number(SubSeq(ds, 1, Len(ds) - 1)) * 10 + DigitVal(ds[Len(ds)])

\* the unsigned text of a float with three decimals: digits, a point, three digits
Unsigned(s) == IF s # <<>> /\ Head(s) = "-" THEN Tail(s) ELSE s

FloatOk(chars) ==
    LET u == Unsigned(Strip(chars))
    IN  /\ Len(u) >= 4
        /\ u[Len(u) - 3] = "."
        /\ \A i \in 1..Len(u) : i # Len(u) - 3 => IsDigit(u[i])

\* float(chars), in thousandths
Float(chars) ==
    LET s == Strip(chars)
        u == Unsigned(s)
        a == Number(SubSeq(u, 1, Len(u) - 4)) * Milli + Number(SubSeq(u, Len(u) - 2, Len(u)))
    IN  IF s # <<>> /\ Head(s) = "-" THEN -a ELSE a

(* The lines of the file of a structure: a title, an ATOM record for each  *)
(* CA atom with its three coordinate fields (columns 30-37, 38-45, 46-53   *)
(* of the line), and an END record.                                        *)
AtomLine(serial, pos) ==
    [kind |-> "ATOM", serial |-> serial,
     x |-> Format83(pos[1] * Milli), y |-> Format83(pos[2] * Milli), z |-> Format83(pos[3] * Milli)]

FileOf(s) ==
    LET kept == Ascending({i \in 1..Len(s) : s[i].ca})
    IN  <<[kind |-> "TITLE"]>> \o [j \in 1..Len(kept) |-> AtomLine(kept[j], s[kept[j]].pos)]
        \o <<[kind |-> "END"]>>

\* line[32:38], line[39:46], line[48:54]
SliceX(line) == SubSeq(line.x, 3, 8)

SliceY(line) == SubSeq(line.y, 2, 8)

SliceZ(line) == SubSeq(line.z, 3, 8)

\* np.array([x, y, z, 0])
WriteVec(x, y, z) == <<x, y, z, 0>>

\* line2 for an ATOM line whose fields parse
WriteLine(m, line) ==
    LET vec == WriteVec(Float(SliceX(line)), Float(SliceY(line)), Float(SliceZ(line)))
        out == Dot(m, vec)
    IN  [line EXCEPT !.x = Format83(out[1]), !.y = Format83(out[2]), !.z = Format83(out[3])]

LineOk(line) ==
    line.kind = "ATOM" => FloatOk(SliceX(line)) /\ FloatOk(SliceY(line)) /\ FloatOk(SliceZ(line))

\* what is written before float() raises, or the whole file
RECURSIVE Written(_, _)
Written(m, lines) ==
    IF lines = <<>> \/ ~LineOk(Head(lines)) THEN <<>>
    ELSE <<IF Head(lines).kind = "ATOM" THEN WriteLine(m, Head(lines)) ELSE Head(lines)>>
         \o Written(m, Tail(lines))

write(p) ==
    /\ status = "ok"
    /\ matrix' = GetMatrix(matrix, p)
    /\ LET lines == FileOf(pdb2)
           out == Written(matrix', lines)
       IN  last' = [op |-> "write", raised |-> Len(out) < Len(lines), args |-> p, out |-> out]
    /\ UNCHANGED <<pdb1, pdb2, mode, cls, status, error, coord1, coord2, src1, src2, N, d02,
                   values, converged>>

NextLoad == Construct

NextScore ==
    \/ Construct
    \/ \E p \in ParamSet : tmscore(p)
    \/ \E p \in ParamSet : rmsd(p)
    \/ get_default_values

SpecScore == Init /\ [][NextScore]_vars

\* The whole public surface, on fewer structures.
ApiEdits == {<<"none", 0>>, <<"dropCA", 2>>}

ApiMoves == {"same", "flip"}

InitApi == InitWith({MinN + Extra}, {<<"none", 0>>}, ApiEdits, ApiMoves, {"index"}, Classes)

Next ==
    \/ Construct
    \/ \E p \in ParamSet : tmscore(p)
    \/ \E p \in ParamSet : rmsd(p)
    \/ \E p \in ParamSet : get_matrix(p)
    \/ get_default_values
    \/ get_current_values
    \/ \E restart \in BOOLEAN, v \in ParamSet, fails \in BOOLEAN : optimise(restart, v, fails)
    \/ \E p \in ParamSet : write(p)

Spec == InitApi /\ [][Next]_vars

SpecLoad == Init /\ [][NextLoad]_vars

\* ------------------------------------------------------------------- claims
\* the residue of row `row` (1 or 2) of the alignment that stands at column c
ResidueAt(align, row, c) == Cardinality({k \in 1..c : align[k][row] # Gap})

\* the positions in a structure of the residues that stand at ungapped columns
\* of the alignment and carry a CA atom
AlignedResidues(s, align, row) ==
    Ascending({i \in {ResidueAt(align, row, c) :
                        c \in {k \in 1..Len(align) : align[k][1] # Gap /\ align[k][2] # Gap}} :
                 s[i].ca})

\* the ATOM line of residue `serial` after the whole transform m (rotation and
\* translation) of its position
Transformed(m, serial, pos) ==
    LET out == Dot(m, <<pos[1] * Milli, pos[2] * Milli, pos[3] * Milli, Milli>>)
    IN  [kind |-> "ATOM", serial |-> serial,
         x |-> Format83(out[1]), y |-> Format83(out[2]), z |-> Format83(out[3])]

\* the matrix of p alone, whatever the array held before
FreshMatrix(p) == GetMatrix(ZeroMatrix, p)

IsSelf == pdb1 = pdb2

\* C1: after a successful construction, in either mode, coord1 and coord2 have
\* the same number of columns (each column has 4 rows).
C1_SameShape ==
    status = "ok" =>
        /\ Len(coord1) = Len(coord2)
        /\ \A j \in 1..Len(coord1) : Len(coord1[j]) = 4
        /\ \A j \in 1..Len(coord2) : Len(coord2[j]) = 4

\* C2: every value tmscore returns lies in [0, 1].
C2_TmScoreInUnitInterval ==
    (last.op = "tmscore" /\ ~last.raised) => (0 <= last.tm /\ last.tm <= Scale)

\* C3: a structure scored against itself at the zero transform has TM-score
\* exactly 1 and RMSD exactly 0, whatever residues it contains.
C3_SelfSuperposition ==
    (status = "ok" /\ IsSelf /\ ~last.raised) =>
        /\ (last.op = "tmscore" /\ last.args = ZeroValues) => last.tm = Scale
        /\ (last.op = "rmsd" /\ last.args = ZeroValues) => last.rmsd = 0

\* C4: in alignment mode the columns of coord1 and coord2 are the CA atoms of
\* exactly the residues that stand at the ungapped columns of the alignment.
C4_UngappedColumns ==
    (status = "ok" /\ mode = "align") =>
        LET align == globalms(Sequence(pdb1), Sequence(pdb2))
        IN  /\ src1 = AlignedResidues(pdb1, align, 1)
            /\ src2 = AlignedResidues(pdb2, align, 2)

\* C5 as stated: the modes accepted are "index" and "alignment"; exactly the
\* other mode values fail with the invalid-configuration error.
C5_AcceptsAlignment ==
    status # "new" =>
        (error = "ValueError: Unrecognised mode" <=> mode \notin {"index", "alignment"})

\* C5, amended: the modes accepted are "index" and "align", which select the
\* index and the alignment builder; every other mode value, "alignment"
\* included, fails with the invalid-configuration error and leaves no object.
C5_AcceptsAlign ==
    status # "new" =>
        /\ (error = "ValueError: Unrecognised mode" <=> mode \notin {"index", "align"})
        /\ mode \notin {"index", "align"} =>
              (status = "failed" /\ coord1 = <<>> /\ coord2 = <<>> /\ N = 0 /\ values = None)
        /\ (status = "ok" /\ mode = "index") => N = Cardinality(IdSet(pdb1))
        /\ (status = "ok" /\ mode = "align") => N = Len(pdb1)

C5_Witness ==
    status = "failed" /\ mode = "alignment" /\ error = "ValueError: Unrecognised mode"

\* C6: write replaces the coordinates of every ATOM line of the second file by
\* the whole transform of get_matrix(params), rotation and translation, of the
\* atom's position, and writes the other lines unchanged and in order.
C6_WriteAppliesTransform ==
    (last.op = "write" /\ ~last.raised) =>
        LET lines == FileOf(pdb2)
        IN  /\ Len(last.out) = Len(lines)
            /\ \A i \in 1..Len(lines) :
                  IF lines[i].kind = "ATOM"
                  THEN last.out[i] = Transformed(FreshMatrix(last.args), lines[i].serial,
                                                 pdb2[lines[i].serial].pos)
                  ELSE last.out[i] = lines[i]

\* C7: the current-best parameters are those of the last completed optimise
\* call, all zero if there is none; only a completed optimise call changes
\* them, and optimise(restart=False) starts the minimiser from them.
C7_CurrentBest ==
    /\ [](status = "ok" =>
            values = IF converged = <<>> THEN ZeroValues ELSE converged[1])
    /\ [][(status = "ok" /\ ~(last'.op = "optimise" /\ ~last'.raised)) => values' = values]_vars
    /\ [][(last'.op = "optimise" /\ last'.seeded /\ ~last'.restart) => last'.start = values]_vars

C7_Witness ==
    /\ last.op = "optimise" /\ last.raised /\ last.seeded /\ ~last.restart
    /\ converged # <<>> /\ values = converged[1] /\ values # ZeroValues

\* C8: in index mode, column i of coord1 and column i of coord2 come from
\* residues with the same residue id.
C8_ColumnsMatchById ==
    (status = "ok" /\ mode = "index") =>
        \A i \in 1..Min(Len(src1), Len(src2)) : pdb1[src1[i]].id = pdb2[src2[i]].id

\* C9: the matrix a caller was handed by get_matrix is not changed by a later
\* call that builds a matrix (get_matrix, tmscore, rmsd, optimise, write).
C9_ReturnedMatrixKept ==
    [][last.op = "get_matrix" => matrix' = matrix]_vars

\* C10: get_default_values never returns undefined (NaN) angles, and
\* optimise(restart=True) never starts the minimiser from them.
C10_DefinedAngles ==
    /\ (last.op = "get_default_values" /\ ~last.raised) =>
          (~last.out.theta.nan /\ ~last.out.phi.nan /\ ~last.out.psi.nan)
    /\ (last.op = "optimise" /\ last.seeded /\ last.restart) =>
          (~last.start.theta.nan /\ ~last.start.phi.nan /\ ~last.start.psi.nan)

====
